---- MODULE Spec2Model ----
(***************************************************************************)
(* Model of the static blog build of nicobees/blog (render/build-pages.ts  *)
(* with render/utils.ts): scanning of local and GitHub sources, slug       *)
(* derivation, aggregation and de-duplication, page composition, index     *)
(* generation and the top-level driver with its single fatal path.         *)
(*                                                                         *)
(* A JavaScript string is a sequence of one-character strings.             *)
(***************************************************************************)
EXTENDS Integers, Sequences, FiniteSets, TLC

VARIABLES
    pc,          \* position of build() / of the scanner it awaits
    token,       \* GITHUB_TOKEN is set
    registry,    \* content-registry.json as the build finds it
    srcIdx,      \* loadContentRegistry: index of the source being scanned
    allPosts,    \* loadContentRegistry: allPosts
    posts,       \* scanLocalMarkdown / scanGitHubMarkdown: posts
    files,       \* scanLocalMarkdown / scanGitHubMarkdown: files
    fileIdx,     \* index of the file the scanner's for loop is at
    inflight,    \* octokit request awaited: "none", "list" or "fetch"
    fetchStats,  \* the process-wide counters
    uniquePosts, \* build: uniquePosts
    postIdx,     \* build: index of the post generatePostHTML is called for
    outDir,      \* OUTPUT_DIR: file name (slug) -> page written
    written,     \* slugs whose page was written, in order
    indexFile,   \* INDEX_OUTPUT: <<>> (not written) or <<index>>
    logged,      \* kinds of warn/error lines written by log()
    escaped,     \* kind of the exception caught by build(), or "none"
    exitCode,    \* "running", or the exit status of the process
    slugIn,      \* slug derivation on its own: the file name scanned
    slugOut,     \* slug derivation on its own: <<>> or <<result>>
    linkIn,      \* link rendering on its own: the link token rendered
    linkOut      \* link rendering on its own: <<>> or <<the anchor element>>

vars == <<pc, token, registry, srcIdx, allPosts, posts, files, fileIdx, inflight,
          fetchStats, uniquePosts, postIdx, outDir, written, indexFile, logged,
          escaped, exitCode, slugIn, slugOut, linkIn, linkOut>>

buildVars == <<pc, token, registry, srcIdx, allPosts, posts, files, fileIdx, inflight,
               fetchStats, uniquePosts, postIdx, outDir, written, indexFile, logged,
               escaped, exitCode>>

(***************************************************************************)
(* Bounds                                                                  *)
(***************************************************************************)
MaxLen == 3      \* longest file-name stem drawn for the slug derivation
MaxFiles == 2    \* most entries of one directory listing
MaxPosts == 3    \* most posts handed to generateBlogIndex on its own
MaxText == 2     \* longest metadata text handed to generatePostHTML on its own

(***************************************************************************)
(* Strings                                                                 *)
(***************************************************************************)
Lowers == {"a", "b", "c", "d", "m", "n", "o", "p", "s", "t", "l", "x"}
Uppers == {"A", "B", "N", "T"}
Digits == {"0", "1", "2", "3", "4", "5", "6", "7", "8", "9"}

\* String.prototype.toLowerCase on one character
LowerChar(c) ==
    CASE c = "A" -> "a"
      [] c = "B" -> "b"
      [] c = "N" -> "n"
      [] c = "T" -> "t"
      [] OTHER -> c

\* the regular-expression class \w (no unicode flag): [A-Za-z0-9_]
IsWordChar(c) == c \in Lowers \cup Uppers \cup Digits \cup {"_"}

DotMd == <<".", "m", "d">>

StartsWithAt(s, i, pat) ==
    /\ i + Len(pat) - 1 <= Len(s)
    /\ \A k \in 1..Len(pat) : s[i + k - 1] = pat[k]

EndsWith(s, pat) ==
    /\ Len(pat) <= Len(s)
    /\ StartsWithAt(s, Len(s) - Len(pat) + 1, pat)

\* s.replace('.md', ''): a string pattern replaces the first occurrence only
ReplaceFirstDotMd(s) ==
    LET hits == {i \in 1..Len(s) : StartsWithAt(s, i, DotMd)}
    IN  IF hits = {} THEN s
        ELSE LET i == CHOOSE j \in hits : \A k \in hits : j <= k
             IN  SubSeq(s, 1, i - 1) \o SubSeq(s, i + Len(DotMd), Len(s))

\* s.replace(/\.md$/, '')
StripDotMdAtEnd(s) ==
    IF EndsWith(s, DotMd) THEN SubSeq(s, 1, Len(s) - Len(DotMd)) ELSE s

\* s.toLowerCase()
ToLowerCase(s) == [i \in 1..Len(s) |-> LowerChar(s[i])]

\* s.replace(/[^\w-]/g, '-')
ReplaceNonWord(s) ==
    [i \in 1..Len(s) |-> IF IsWordChar(s[i]) \/ s[i] = "-" THEN s[i] ELSE "-"]

\* s.replace(/-+/g, '-')
CollapseHyphens(s) ==
    LET keep(i) == ~(s[i] = "-" /\ i > 1 /\ s[i - 1] = "-")
        F[i \in 0..Len(s)] ==
            IF i = 0 THEN <<>>
            ELSE IF keep(i) THEN Append(F[i - 1], s[i]) ELSE F[i - 1]
    IN  F[Len(s)]

\* s.split('/').pop(): the part after the last '/'
LastSegment(s) ==
    LET slashes == {i \in 1..Len(s) : s[i] = "/"}
    IN  IF slashes = {} THEN s
        ELSE LET i == CHOOSE j \in slashes : \A k \in slashes : k <= j
             IN  SubSeq(s, i + 1, Len(s))

\* the slug lines with the two regular-expression replaces in the other order
LocalSlugCollapseFirst(file) ==
    ReplaceNonWord(CollapseHyphens(ToLowerCase(ReplaceFirstDotMd(file))))

\* scanLocalMarkdown: const slug = file.replace('.md', '').toLowerCase()...
LocalSlug(file) ==
    CollapseHyphens(ReplaceNonWord(ToLowerCase(ReplaceFirstDotMd(file))))

\* scanGitHubMarkdown: pathSegments, rawSlug
RawSlug(filePath) ==
    LET last == LastSegment(StripDotMdAtEnd(filePath))
    IN  IF last = <<>> THEN filePath ELSE last

\* scanGitHubMarkdown: const slug = rawSlug.toLowerCase()...
RemoteSlug(filePath) ==
    CollapseHyphens(ReplaceNonWord(ToLowerCase(RawSlug(filePath))))

\* scanGitHubMarkdown: slug: `${owner}-${slug}`
RemotePostSlug(owner, filePath) == owner \o <<"-">> \o RemoteSlug(filePath)

(***************************************************************************)
(* JavaScript values of the metadata header (gray-matter's data)           *)
(***************************************************************************)
Str(s) == [t |-> "str", v |-> s]
Num(s) == [t |-> "num", v |-> s]
Arr(items) == [t |-> "arr", v |-> <<>>, items |-> items]
Undefined == [t |-> "undef", v |-> <<>>]

\* ToBoolean
Truthy(val) ==
    CASE val.t = "undef" -> FALSE
      [] val.t = "str" -> val.v # <<>>
      [] val.t = "num" -> val.v # <<"0">>
      [] OTHER -> TRUE

\* a || b
OrElse(a, b) == IF Truthy(a) THEN a ELSE b

\* data.key of an object that may lack the key
Get(data, key) == IF key \in DOMAIN data THEN data[key] ELSE Undefined

\* Array.prototype.join on an array of strings
RECURSIVE Join(_, _)
Join(items, sep) ==
    IF items = <<>> THEN <<>>
    ELSE IF Len(items) = 1 THEN items[1]
    ELSE items[1] \o sep \o Join(Tail(items), sep)

\* String(value), as a template literal `${value}` applies it
JsString(val) ==
    CASE val.t = "arr" -> Join(val.items, <<",">>)
      [] val.t = "undef" ->
            <<"u", "n", "d", "e", "f", "i", "n", "e", "d">>
      [] OTHER -> val.v

(***************************************************************************)
(* The inputs of one build: registry, local directories, remote repository *)
(***************************************************************************)
Date0101 == <<"2", "0", "2", "5", "-", "0", "1", "-", "0", "1">>
Date0201 == <<"2", "0", "2", "5", "-", "0", "2", "-", "0", "1">>
Date0301 == <<"2", "0", "2", "5", "-", "0", "3", "-", "0", "1">>
DateSoon == <<"s", "o", "o", "n">>

\* new Date().toISOString().split('T') at the time of the build
NowParts ==
    << <<"2", "0", "2", "6", "-", "1", "1", "-", "0", "1">>,
       <<"0", "0", ":", "0", "0", ":", "0", "0", ".", "0", "0", "0", "Z">> >>

BodyOk == <<"x">>     \* a markdown body marked converts
BodyBad == <<"!">>    \* a markdown body on which marked.parse throws

FileA == <<"a", ".", "m", "d">>
FileUpperA == <<"A", ".", "m", "d">>
FileOB == <<"o", "-", "b", ".", "m", "d">>
FileC == <<"c", ".", "m", "d">>
FileTxt == <<"n", ".", "t", "x", "t">>
FileB == <<"b", ".", "m", "d">>
FileE == <<"e", ".", "m", "d">>
DirD == <<"d">>
FileNested == <<"d", "/", "g", ".", "m", "d">>
FileNestedTxt == <<"d", "/", "n", ".", "t", "x", "t">>

LocalNames == {FileA, FileUpperA, FileOB, FileC, FileTxt}

\* the contents of the files of the local directory
LocalFile(name) ==
    CASE name = FileA ->
            [kind |-> "ok", body |-> BodyOk,
             data |-> [title |-> Str(<<"T">>), date |-> Str(Date0301),
                       status |-> Str(<<"p", "u", "b", "l", "i", "s", "h", "e", "d">>),
                       description |-> Str(<<"d">>), author |-> Str(<<"n">>),
                       tags |-> Arr(<< <<"t">>, <<"s">> >>)]]
      [] name = FileUpperA ->
            [kind |-> "ok", body |-> BodyBad,
             data |-> [date |-> Str(Date0101),
                       status |-> Str(<<"d", "r", "a", "f", "t">>)]]
      [] name = FileOB ->
            [kind |-> "ok", body |-> BodyOk,
             data |-> [title |-> Num(<<"7">>), date |-> Str(Date0201),
                       status |-> Str(<<"p", "u", "b", "l", "i", "s", "h", "e", "d">>)]]
      [] name = FileC ->
            [kind |-> "badyaml", body |-> BodyOk, data |-> <<>>]
      [] OTHER ->
            [kind |-> "empty", body |-> <<>>, data |-> <<>>]

RemoteItems ==
    {[type |-> "file", path |-> FileB], [type |-> "file", path |-> FileC],
     [type |-> "file", path |-> FileE], [type |-> "dir", path |-> DirD]}

\* the entries of the directory d of the remote repository
RemoteItemsOfD ==
    <<[type |-> "file", path |-> FileNested], [type |-> "file", path |-> FileNestedTxt]>>

\* the path is a directory of the remote repository (the empty path: its root)
IsRemoteDir(path) == path \in {<<>>, DirD}

\* the contents of the files of the remote repository
RemoteFile(path) ==
    CASE path = FileB ->
            [kind |-> "ok", body |-> BodyOk,
             data |-> [title |-> Str(<<"B">>), date |-> Str(Date0301),
                       status |-> Str(<<"a", "r", "c", "h", "i", "v", "e", "d">>)]]
      [] path = FileC ->
            [kind |-> "badyaml", body |-> BodyOk, data |-> <<>>]
      [] path = FileNested ->
            [kind |-> "ok", body |-> BodyOk, data |-> [description |-> Str(<<"d">>)]]
      [] OTHER ->
            [kind |-> "empty", body |-> <<>>, data |-> <<>>]

\* sequences of at most n distinct elements of S (a directory listing)
Listings(S, n) ==
    {q \in UNION {[1..k -> S] : k \in 0..n} :
        \A i, j \in 1..Len(q) : i # j => q[i] # q[j]}

\* the arrays octokit may return for the directory
ListingsOf(path) ==
    IF path = DirD THEN {RemoteItemsOfD} ELSE Listings(RemoteItems, MaxFiles)

OwnerO == <<"o">>
RepoR == <<"r">>

PathPosts == <<"c", "o", "n", "t", "e", "n", "t", "/", "p", "o", "s", "t", "s">>
PathNone == <<"n", "o", "n", "e">>

SrcLocal == [type |-> "local", path |-> PathPosts]
SrcLocalMissing == [type |-> "local", path |-> PathNone]
SrcGitHub == [type |-> "github", path |-> <<>>, owner |-> OwnerO, repo |-> RepoR]
SrcGitHubNoRepo == [type |-> "github", path |-> <<>>, owner |-> OwnerO]
SrcGitHubFile == [type |-> "github", path |-> FileB, owner |-> OwnerO, repo |-> RepoR]
SrcGitHubDir == [type |-> "github", path |-> DirD, owner |-> OwnerO, repo |-> RepoR]
SrcGitHubNested == [type |-> "github", path |-> FileNested, pattern |-> FileNested,
                    owner |-> OwnerO, repo |-> RepoR]

\* content-registry.json: absent, unreadable as { sources: [...] }, or its sources
Registries ==
    {[file |-> "missing", sources |-> <<>>], [file |-> "malformed", sources |-> <<>>]}
    \cup
    {[file |-> "ok", sources |-> q] :
        q \in {<<SrcLocal>>, <<SrcLocalMissing>>, <<SrcGitHub>>, <<SrcGitHubNoRepo>>,
               <<SrcGitHubFile>>, <<SrcLocal, SrcGitHub>>, <<SrcGitHub, SrcLocal>>,
               <<SrcLocalMissing, SrcGitHub>>, <<SrcGitHubNoRepo, SrcLocal>>,
               <<SrcGitHubNested>>, <<SrcLocal, SrcGitHubNested>>, <<SrcGitHubDir>>}}

\* fs.existsSync(fullPath) for the local directories of the inputs
LocalDirExists(path) == path = PathPosts

\* gray-matter: matter(raw) returns {data, content}, or throws on a bad header
MatterThrows(raw) == raw.kind = "badyaml"
Matter(raw) == [data |-> raw.data, content |-> raw.body]

\* !content for the string fetchGitHubFile returned
IsEmptyString(raw) == raw.kind = "empty"

(***************************************************************************)
(* Post records                                                            *)
(***************************************************************************)
PostLocalPrefix == <<"p", "o", "s", "t", "-", "l", "o", "c", "a", "l", "-">>
PostPrefix == <<"p", "o", "s", "t", "-">>

\* data.date || new Date().toISOString().split('T')
DefaultDate == Arr(NowParts)

\* scanLocalMarkdown: the record pushed for one file
LocalPost(file, parsed) ==
    LET slug == LocalSlug(file)
        data == parsed.data
    IN  [content |-> parsed.content,
         date |-> OrElse(Get(data, "date"), DefaultDate),
         description |-> OrElse(Get(data, "description"), Str(<<>>)),
         id |-> PostLocalPrefix \o slug,
         metadata |-> data,
         slug |-> slug,
         source |-> "local",
         title |-> OrElse(Get(data, "title"), Str(file))]

\* scanGitHubMarkdown: the record pushed for one fetched file
RemotePost(owner, repo, filePath, parsed) ==
    LET slug == RemoteSlug(filePath)
        data == parsed.data
    IN  [content |-> parsed.content,
         date |-> OrElse(Get(data, "date"), DefaultDate),
         description |-> OrElse(Get(data, "description"), Str(<<>>)),
         id |-> PostPrefix \o owner \o <<"-">> \o slug,
         metadata |-> data,
         slug |-> RemotePostSlug(owner, filePath),
         source |-> "github",
         sourceRepo |-> owner \o <<"/">> \o repo,
         title |-> OrElse(Get(data, "title"), Str(filePath))]

(***************************************************************************)
(* minimatch(path, pattern) for the patterns of the inputs                 *)
(***************************************************************************)
StarDotMd == <<"*", ".", "m", "d">>

\* '*' matches within one path segment and no leading dot; a pattern without
\* glob characters matches the equal path
Minimatch(path, pattern) ==
    IF pattern = StarDotMd
    THEN /\ \A i \in 1..Len(path) : path[i] # "/"
         /\ EndsWith(path, DotMd)
         /\ path[1] # "."
    ELSE path = pattern

\* const { ..., pattern = '*.md' } = source
PatternOf(source) ==
    IF "pattern" \in DOMAIN source THEN source.pattern ELSE StarDotMd

(***************************************************************************)
(* build: de-duplication by slug                                           *)
(***************************************************************************)
\* Map.prototype.set on a map kept as the sequence of its entries: a new key is
\* appended, an existing key keeps its place and takes the new value
MapSet(m, key, value) ==
    IF \E i \in 1..Len(m) : m[i].key = key
    THEN [i \in 1..Len(m) |-> IF m[i].key = key THEN [key |-> key, value |-> value]
                                                  ELSE m[i]]
    ELSE Append(m, [key |-> key, value |-> value])

\* new Map(posts.map((p) => [p.slug, p]))
RECURSIVE MapOf(_)
MapOf(ps) ==
    IF ps = <<>> THEN <<>>
    ELSE LET last == ps[Len(ps)]
         IN  MapSet(MapOf(SubSeq(ps, 1, Len(ps) - 1)), last.slug, last)

\* no de-duplication: every scanned post is kept
UniquePostsAll(ps) == ps

\* a de-duplication that keeps the first post of a slug
UniquePostsKeepFirst(ps) ==
    LET F[i \in 0..Len(ps)] ==
            IF i = 0 THEN <<>>
            ELSE IF \E j \in 1..(i - 1) : ps[j].slug = ps[i].slug THEN F[i - 1]
            ELSE Append(F[i - 1], ps[i])
    IN  F[Len(ps)]

\* Array.from(new Map(posts.map((p) => [p.slug, p])).values())
UniquePosts(ps) ==
    LET m == MapOf(ps) IN [i \in 1..Len(m) |-> m[i].value]

(***************************************************************************)
(* Markdown conversion                                                     *)
(***************************************************************************)
\* marked.parse(markdown) throws on this body
MarkedThrows(markdown) == markdown = BodyBad

\* text.replace(/c/g, rep) for a one-character pattern
RECURSIVE ReplaceAllChar(_, _, _)
ReplaceAllChar(s, c, rep) ==
    IF s = <<>> THEN <<>>
    ELSE (IF Head(s) = c THEN rep ELSE <<Head(s)>>) \o ReplaceAllChar(Tail(s), c, rep)

\* the fragment marked.parse returns for a body it converts: a paragraph of
\* the text, with & written as an entity
MarkedHtml(markdown) ==
    <<"<", "p", ">">> \o ReplaceAllChar(markdown, "&", <<"&", "a", "m", "p", ";">>)
        \o <<"<", "/", "p", ">">>

\* '<p>Error rendering content</p>'
ErrorFragment ==
    <<"<", "p", ">", "E", "r", "r", "o", "r", " ", "r", "e", "n", "d", "e", "r",
      "i", "n", "g", " ", "c", "o", "n", "t", "e", "n", "t", "<", "/", "p", ">">>

\* a conversion whose error is not caught
RenderMarkdownToHtmlUncaught(markdown) ==
    IF MarkedThrows(markdown)
    THEN [threw |-> TRUE, html |-> <<>>, log |-> {}]
    ELSE [threw |-> FALSE, html |-> MarkedHtml(markdown), log |-> {}]

\* renderMarkdownToHtml: the html returned, what it logs, whether it throws
RenderMarkdownToHtml(markdown) ==
    IF MarkedThrows(markdown)
    THEN [threw |-> FALSE, html |-> ErrorFragment, log |-> {"conversionError"}]
    ELSE [threw |-> FALSE, html |-> MarkedHtml(markdown), log |-> {}]

(***************************************************************************)
(* utils: escapeHtml                                                       *)
(***************************************************************************)
EscapeHtml(text) ==
    LET s1 == ReplaceAllChar(text, "&", <<"&", "a", "m", "p", ";">>)
        s2 == ReplaceAllChar(s1, "<", <<"&", "l", "t", ";">>)
        s3 == ReplaceAllChar(s2, ">", <<"&", "g", "t", ";">>)
        s4 == ReplaceAllChar(s3, "\"", <<"&", "q", "u", "o", "t", ";">>)
    IN  ReplaceAllChar(s4, "'", <<"&", "#", "0", "3", "9", ";">>)

(***************************************************************************)
(* generatePostHTML: the document head                                     *)
(***************************************************************************)
Unknown == <<"U", "n", "k", "n", "o", "w", "n">>

\* post.metadata.author || 'Unknown'
AuthorOf(post) == OrElse(Get(post.metadata, "author"), Str(Unknown))

\* escapeHtml(x) calls x.replace, tags.join(', ') calls join: a TypeError when
\* the value is no string, or no array
HeadThrows(post) ==
    \/ post.title.t # "str"
    \/ post.description.t # "str"
    \/ AuthorOf(post).t # "str"
    \/ /\ Truthy(Get(post.metadata, "tags"))
       /\ Get(post.metadata, "tags").t # "arr"

\* the values interpolated into <head>, in document order
HeadOf(post) ==
    LET tags == Get(post.metadata, "tags")
    IN  << [name |-> "title", content |-> EscapeHtml(post.title.v)],
           [name |-> "description", content |-> EscapeHtml(post.description.v)],
           [name |-> "og:title", content |-> EscapeHtml(post.title.v)],
           [name |-> "og:description", content |-> EscapeHtml(post.description.v)],
           [name |-> "article:published_time", content |-> JsString(post.date)],
           [name |-> "author", content |-> EscapeHtml(AuthorOf(post).v)] >>
        \o (IF Truthy(tags)
            THEN <<[name |-> "keywords",
                    content |-> EscapeHtml(Join(tags.items, <<",", " ">>))]>>
            ELSE <<>>)

(***************************************************************************)
(* generateBlogIndex                                                       *)
(***************************************************************************)
\* new Date(date).getTime() in days: <<n>>, or <<>> for NaN (Invalid Date).
\* The array of the default date is converted to "date,time", which the
\* engine's fallback parser reads as the build time.
TimeOf(date) ==
    CASE date.t = "str" /\ date.v = Date0101 -> <<20089>>
      [] date.t = "str" /\ date.v = Date0201 -> <<20120>>
      [] date.t = "str" /\ date.v = Date0301 -> <<20148>>
      [] date.t = "arr" -> <<20758>>
      [] date.t = "num" -> <<0>>
      [] OTHER -> <<>>

\* (a, b) => new Date(b.date).getTime() - new Date(a.date).getTime()
Comparator(a, b) ==
    LET ta == TimeOf(a.date)
        tb == TimeOf(b.date)
    IN  IF ta = <<>> \/ tb = <<>> THEN "NaN"
        ELSE IF tb[1] - ta[1] < 0 THEN "neg"
        ELSE IF tb[1] - ta[1] > 0 THEN "pos"
        ELSE "zero"

\* Array.prototype.sort treats a NaN result as +0
SortsEqual(a, b) == Comparator(a, b) \in {"zero", "NaN"}

\* the comparator is a consistent comparator for the elements of s
ConsistentComparator(s) ==
    \A i, j, k \in 1..Len(s) :
        /\ (SortsEqual(s[i], s[j]) /\ SortsEqual(s[j], s[k])) => SortsEqual(s[i], s[k])
        /\ (SortsEqual(s[i], s[j]) /\ Comparator(s[j], s[k]) = "neg")
               => Comparator(s[i], s[k]) = "neg"
        /\ (SortsEqual(s[i], s[j]) /\ Comparator(s[j], s[k]) = "pos")
               => Comparator(s[i], s[k]) = "pos"

\* stable insertion: x goes behind every element that does not sort after it
InsertSorted(sorted, x) ==
    LET n == Cardinality({i \in 1..Len(sorted) : Comparator(sorted[i], x) # "pos"})
    IN  SubSeq(sorted, 1, n) \o <<x>> \o SubSeq(sorted, n + 1, Len(sorted))

RECURSIVE StableSort(_)
StableSort(s) ==
    IF s = <<>> THEN <<>>
    ELSE InsertSorted(StableSort(SubSeq(s, 1, Len(s) - 1)), s[Len(s)])

PermutationsOf(s) ==
    {[i \in 1..Len(s) |-> s[f[i]]] :
        f \in {g \in [1..Len(s) -> 1..Len(s)] :
                  \A i, j \in 1..Len(s) : i # j => g[i] # g[j]}}

\* the orders Array.prototype.sort may leave the array in: the stable sorted
\* order, or an implementation-defined order when the comparator is not a
\* consistent comparator
SortOutcomes(s) ==
    IF ConsistentComparator(s) THEN {StableSort(s)} ELSE PermutationsOf(s)

\* (p) => ({...p, content: '', date: p.date, description: p.description, ...})
IndexEntry(p) == [p EXCEPT !.content = <<>>]

\* a listing that leaves out the first post
IndexEntriesSkipFirst(ps) == [i \in 1..(Len(ps) - 1) |-> IndexEntry(ps[i + 1])]

IndexEntries(ps) == [i \in 1..Len(ps) |-> IndexEntry(ps[i])]

\* new Date().toISOString() at the time of the build
LastUpdated == NowParts[1] \o <<"T">> \o NowParts[2]

(***************************************************************************)
(* The build                                                               *)
(***************************************************************************)
scanVars == <<posts, files, fileIdx, inflight>>
outVars == <<uniquePosts, postIdx, outDir, written, indexFile>>
slugVars == <<slugIn, slugOut, linkIn, linkOut>>

NoStats == [failed |-> 0, success |-> 0, total |-> 0]

IdleSlug ==
    /\ slugIn = [kind |-> "none", file |-> <<>>, owner |-> <<>>, prev |-> <<>>]
    /\ slugOut = <<>>
    /\ linkIn = <<>>
    /\ linkOut = <<>>

\* the state of the module once loaded, before build() runs
Init ==
    /\ pc = "start"
    /\ token \in BOOLEAN
    /\ registry \in Registries
    /\ srcIdx = 1
    /\ allPosts = <<>>
    /\ posts = <<>>
    /\ files = <<>>
    /\ fileIdx = 1
    /\ inflight = "none"
    /\ fetchStats = NoStats
    /\ uniquePosts = <<>>
    /\ postIdx = 1
    /\ outDir = <<>>
    /\ written = <<>>
    /\ indexFile = <<>>
    /\ logged = {}
    /\ escaped = "none"
    /\ exitCode = <<>>
    /\ IdleSlug

\* build: catch (error) { log(`Build failed: ${error}`, 'error'); process.exit(1) }
Fatal(kind, logs) ==
    /\ pc' = "fatal"
    /\ escaped' = kind
    /\ logged' = logged \cup logs \cup {"buildFailed"}
    /\ exitCode' = <<1>>

\* build: the token check
BuildStart ==
    /\ pc = "start"
    /\ pc' = "loadRegistry"
    /\ logged' = IF token THEN logged ELSE logged \cup {"noToken"}
    /\ UNCHANGED <<token, registry, srcIdx, allPosts, scanVars, fetchStats, outVars,
                   escaped, exitCode, slugVars>>

\* a loader that reads the registry file without looking whether it exists
LoadContentRegistryUnchecked ==
    /\ pc = "loadRegistry"
    /\ \/ /\ registry.file \in {"missing", "malformed"}
          /\ Fatal("registryMalformed", {})
       \/ /\ registry.file = "ok"
          /\ pc' = "nextSource"
          /\ UNCHANGED <<logged, escaped, exitCode>>
    /\ UNCHANGED <<token, registry, srcIdx, allPosts, scanVars, fetchStats, outVars,
                   slugVars>>

\* loadContentRegistry up to its for loop
LoadContentRegistry ==
    /\ pc = "loadRegistry"
    /\ \/ /\ registry.file = "missing"
          /\ pc' = "dedupe"
          /\ logged' = logged \cup {"registryMissing"}
          /\ UNCHANGED <<escaped, exitCode>>
       \/ /\ registry.file = "malformed"
          /\ Fatal("registryMalformed", {})
       \/ /\ registry.file = "ok"
          /\ pc' = "nextSource"
          /\ UNCHANGED <<logged, escaped, exitCode>>
    /\ UNCHANGED <<token, registry, srcIdx, allPosts, scanVars, fetchStats, outVars,
                   slugVars>>

\* a loop that keeps only the posts of the source scanned last
SourceDoneReplace(ps) ==
    /\ allPosts' = ps
    /\ srcIdx' = srcIdx + 1
    /\ pc' = "nextSource"
    /\ posts' = <<>>
    /\ files' = <<>>
    /\ fileIdx' = 1
    /\ inflight' = "none"

\* allPosts = allPosts.concat(posts) and the next turn of the for loop
SourceDone(ps) ==
    /\ allPosts' = allPosts \o ps
    /\ srcIdx' = srcIdx + 1
    /\ pc' = "nextSource"
    /\ posts' = <<>>
    /\ files' = <<>>
    /\ fileIdx' = 1
    /\ inflight' = "none"

\* loadContentRegistry: one turn of for (const source of registry.sources), up
\* to the scanner's first await or its early return
ScanSource ==
    /\ pc = "nextSource"
    /\ \/ /\ srcIdx > Len(registry.sources)
          /\ pc' = "dedupe"
          /\ UNCHANGED <<srcIdx, allPosts, scanVars, logged>>
       \/ /\ srcIdx <= Len(registry.sources)
          /\ registry.sources[srcIdx].type = "local"
          /\ ~LocalDirExists(registry.sources[srcIdx].path)
          /\ SourceDone(<<>>)
          /\ logged' = logged \cup {"localMissing"}
       \/ /\ srcIdx <= Len(registry.sources)
          /\ registry.sources[srcIdx].type = "local"
          /\ LocalDirExists(registry.sources[srcIdx].path)
          /\ \E entries \in Listings(LocalNames, MaxFiles) :
                files' = SelectSeq(entries, LAMBDA f : EndsWith(f, DotMd))
          /\ posts' = <<>>
          /\ fileIdx' = 1
          /\ pc' = "localFile"
          /\ UNCHANGED <<srcIdx, allPosts, inflight, logged>>
       \/ /\ srcIdx <= Len(registry.sources)
          /\ registry.sources[srcIdx].type = "github"
          /\ ("owner" \notin DOMAIN registry.sources[srcIdx] \/ "repo" \notin DOMAIN registry.sources[srcIdx])
          /\ SourceDone(<<>>)
          /\ logged' = logged \cup {"invalidGitHubSource"}
       \/ /\ srcIdx <= Len(registry.sources)
          /\ registry.sources[srcIdx].type = "github"
          /\ "owner" \in DOMAIN registry.sources[srcIdx]
          /\ "repo" \in DOMAIN registry.sources[srcIdx]
          /\ inflight' = "list"
          /\ pc' = "ghList"
          /\ UNCHANGED <<srcIdx, allPosts, posts, files, fileIdx, logged>>
    /\ UNCHANGED <<token, registry, fetchStats, outVars, escaped, exitCode, slugVars>>

\* scanLocalMarkdown: one turn of for (const file of files), or its return
ScanLocalFile ==
    /\ pc = "localFile"
    /\ \/ /\ fileIdx > Len(files)
          /\ SourceDone(posts)
          /\ UNCHANGED <<fetchStats, logged>>
       \/ /\ fileIdx <= Len(files)
          /\ MatterThrows(LocalFile(files[fileIdx]))
          /\ SourceDone(posts)
          /\ logged' = logged \cup {"scanLocalError"}
          /\ UNCHANGED fetchStats
       \/ /\ fileIdx <= Len(files)
          /\ ~MatterThrows(LocalFile(files[fileIdx]))
          /\ posts' = Append(posts, LocalPost(files[fileIdx],
                                              Matter(LocalFile(files[fileIdx]))))
          /\ fetchStats' = [fetchStats EXCEPT !.success = @ + 1, !.total = @ + 1]
          /\ fileIdx' = fileIdx + 1
          /\ UNCHANGED <<pc, srcIdx, allPosts, files, inflight, logged>>
    /\ UNCHANGED <<token, registry, outVars, escaped, exitCode, slugVars>>

\* listGitHubDirectory: the paths kept of an array response
ListedPaths(items, pattern) ==
    LET fileItems == SelectSeq(items, LAMBDA item : item.type = "file")
        paths == [i \in 1..Len(fileItems) |-> fileItems[i].path]
    IN  SelectSeq(paths, LAMBDA path : Minimatch(path, pattern))

\* scanGitHubMarkdown: listGitHubDirectory returns
GitHubListReturn ==
    /\ pc = "ghList"
    /\ \/ /\ files' = <<>>
          /\ logged' = logged \cup {"listError"}
       \/ /\ IsRemoteDir(registry.sources[srcIdx].path)
          /\ \E items \in ListingsOf(registry.sources[srcIdx].path) :
                files' = ListedPaths(items, PatternOf(registry.sources[srcIdx]))
          /\ UNCHANGED logged
       \/ /\ ~IsRemoteDir(registry.sources[srcIdx].path)
          /\ files' = IF Minimatch(registry.sources[srcIdx].path, PatternOf(registry.sources[srcIdx]))
                      THEN <<registry.sources[srcIdx].path>> ELSE <<>>
          /\ UNCHANGED logged
    /\ posts' = <<>>
    /\ fileIdx' = 1
    /\ inflight' = "none"
    /\ pc' = "ghFile"
    /\ UNCHANGED <<token, registry, srcIdx, allPosts, fetchStats, outVars, escaped,
                   exitCode, slugVars>>

\* a loop that starts the fetch of every listed file without awaiting it
GitHubNextFileNoAwait ==
    /\ pc = "ghFile"
    /\ \/ /\ fileIdx > Len(files)
          /\ SourceDone(posts)
       \/ /\ fileIdx <= Len(files)
          /\ inflight' = "fetch"
          /\ fileIdx' = fileIdx + 1
          /\ UNCHANGED <<pc, srcIdx, allPosts, posts, files>>
    /\ UNCHANGED <<token, registry, fetchStats, logged, outVars, escaped, exitCode,
                   slugVars>>

\* scanGitHubMarkdown: for (const filePath of files) calls fetchGitHubFile, or
\* the loop is over and posts is returned
GitHubNextFile ==
    /\ pc = "ghFile"
    /\ \/ /\ fileIdx > Len(files)
          /\ SourceDone(posts)
       \/ /\ fileIdx <= Len(files)
          /\ inflight' = "fetch"
          /\ pc' = "ghFetch"
          /\ UNCHANGED <<srcIdx, allPosts, posts, files, fileIdx>>
    /\ UNCHANGED <<token, registry, fetchStats, logged, outVars, escaped, exitCode,
                   slugVars>>

\* a scan that gives up its source at the first fetch that fails
GitHubFetchReturnAbort ==
    /\ pc = "ghFetch"
    /\ LET source == registry.sources[srcIdx]
           filePath == files[fileIdx]
           raw == RemoteFile(filePath)
           goOn == /\ fileIdx' = fileIdx + 1
                   /\ inflight' = "none"
                   /\ pc' = "ghFile"
                   /\ UNCHANGED <<srcIdx, allPosts, files>>
       IN  \/ /\ fetchStats' = [fetchStats EXCEPT !.failed = @ + 1, !.total = @ + 1]
              /\ logged' = logged \cup {"fetchFailed"}
              /\ SourceDone(<<>>)
           \/ /\ IsEmptyString(raw) \/ MatterThrows(raw)
              /\ fetchStats' = [fetchStats EXCEPT !.total = @ + 1]
              /\ logged' = IF IsEmptyString(raw) THEN logged ELSE logged \cup {"parseError"}
              /\ UNCHANGED posts
              /\ goOn
           \/ /\ ~IsEmptyString(raw)
              /\ ~MatterThrows(raw)
              /\ posts' = Append(posts, RemotePost(source.owner, source.repo, filePath,
                                                   Matter(raw)))
              /\ fetchStats' = [fetchStats EXCEPT !.success = @ + 1, !.total = @ + 1]
              /\ UNCHANGED logged
              /\ goOn
    /\ UNCHANGED <<token, registry, outVars, escaped, exitCode, slugVars>>

\* fetchGitHubFile returns and the rest of the loop body runs
GitHubFetchReturn ==
    /\ pc = "ghFetch"
    /\ LET source == registry.sources[srcIdx]
           filePath == files[fileIdx]
           raw == RemoteFile(filePath)
       IN  \/ /\ \E status \in {404, 500} : TRUE
              /\ fetchStats' = [fetchStats EXCEPT !.failed = @ + 1, !.total = @ + 1]
              /\ logged' = logged \cup {"fetchFailed"}
              /\ UNCHANGED posts
           \/ /\ IsEmptyString(raw)
              /\ fetchStats' = [fetchStats EXCEPT !.total = @ + 1]
              /\ UNCHANGED <<posts, logged>>
           \/ /\ ~IsEmptyString(raw)
              /\ MatterThrows(raw)
              /\ fetchStats' = [fetchStats EXCEPT !.total = @ + 1]
              /\ logged' = logged \cup {"parseError"}
              /\ UNCHANGED posts
           \/ /\ ~IsEmptyString(raw)
              /\ ~MatterThrows(raw)
              /\ posts' = Append(posts, RemotePost(source.owner, source.repo, filePath,
                                                   Matter(raw)))
              /\ fetchStats' = [fetchStats EXCEPT !.success = @ + 1, !.total = @ + 1]
              /\ UNCHANGED logged
    /\ fileIdx' = fileIdx + 1
    /\ inflight' = "none"
    /\ pc' = "ghFile"
    /\ UNCHANGED <<token, registry, srcIdx, allPosts, files, outVars, escaped, exitCode,
                   slugVars>>

\* build: const uniquePosts = Array.from(new Map(...).values())
Deduplicate ==
    /\ pc = "dedupe"
    /\ uniquePosts' = UniquePosts(allPosts)
    /\ postIdx' = 1
    /\ pc' = "compose"
    /\ UNCHANGED <<token, registry, srcIdx, allPosts, scanVars, fetchStats, outDir,
                   written, indexFile, logged, escaped, exitCode, slugVars>>

\* MARKDOWN_CONTENT_PLACEHOLDER; the text is kept as one element of a string
Placeholder == "__markdownContentPlaceholder__"

\* the escaping React applies to a text child
ReactEscape(text) ==
    LET s1 == ReplaceAllChar(text, "&", <<"&", "a", "m", "p", ";">>)
        s2 == ReplaceAllChar(s1, "<", <<"&", "l", "t", ";">>)
        s3 == ReplaceAllChar(s2, ">", <<"&", "g", "t", ";">>)
        s4 == ReplaceAllChar(s3, "\"", <<"&", "q", "u", "o", "t", ";">>)
    IN  ReplaceAllChar(s4, "'", <<"&", "#", "x", "2", "7", ";">>)

\* renderToString(NavigationWrapper(Post)) up to the slot: navigation, title,
\* author and description, each markup element kept as one element
ShellBefore(post) ==
    <<"<nav/>", "<h1>">> \o ReactEscape(JsString(post.title)) \o <<"</h1>">>
    \o (IF Truthy(Get(post.metadata, "author"))
        THEN <<"<span>">> \o ReactEscape(JsString(Get(post.metadata, "author")))
                 \o <<"</span>">>
        ELSE <<>>)
    \o (IF Truthy(post.description)
        THEN <<"<p>">> \o ReactEscape(JsString(post.description)) \o <<"</p>">>
        ELSE <<>>)
    \o <<"<div>">>

\* the rest of the shell behind the slot
ShellAfter(post) == <<"</div>", "<footer/>">>

ShellOf(post) == ShellBefore(post) \o <<Placeholder>> \o ShellAfter(post)

\* GetSubstitution for a string pattern: $$ is $, $& the matched text and $'
\* the text behind it; any other $ stands for itself. (The pattern for the text
\* before the match needs a grave accent, which no text of the model holds.)
RECURSIVE ExpandReplacement(_, _, _, _)
ExpandReplacement(r, matched, before, after) ==
    IF r = <<>> THEN <<>>
    ELSE IF r[1] = "$" /\ Len(r) >= 2 /\ r[2] \in {"$", "&", "'"}
    THEN (CASE r[2] = "$" -> <<"$">>
            [] r[2] = "&" -> matched
            [] OTHER -> after)
         \o ExpandReplacement(SubSeq(r, 3, Len(r)), matched, before, after)
    ELSE <<r[1]>> \o ExpandReplacement(Tail(r), matched, before, after)

\* s.replace(pattern, replacement) for a string pattern of one element: the
\* first occurrence is replaced
ReplaceFirst(s, pattern, replacement) ==
    LET hits == {i \in 1..Len(s) : s[i] = pattern}
    IN  IF hits = {} THEN s
        ELSE LET i == CHOOSE j \in hits : \A k \in hits : j <= k
                 before == SubSeq(s, 1, i - 1)
                 after == SubSeq(s, i + 1, Len(s))
             IN  before \o ExpandReplacement(replacement, <<pattern>>, before, after)
                     \o after

\* the document generatePostHTML writes for a post
PageOf(post, html) ==
    [head |-> HeadOf(post), body |-> ReplaceFirst(ShellOf(post), Placeholder, html)]

\* fs.writeFileSync(path.join(OUTPUT_DIR, `${post.slug}.html`), ...)
WriteFile(dir, name, page) ==
    [n \in DOMAIN dir \cup {name} |-> IF n = name THEN page ELSE dir[n]]

\* build: one turn of for (const post of uniquePosts) { await generatePostHTML(post) }
GeneratePostHTML ==
    /\ pc = "compose"
    /\ \/ /\ postIdx > Len(uniquePosts)
          /\ pc' = "index"
          /\ UNCHANGED <<postIdx, outDir, written, logged, escaped, exitCode>>
       \/ /\ postIdx <= Len(uniquePosts)
          /\ LET post == uniquePosts[postIdx]
                 conv == RenderMarkdownToHtml(post.content)
             IN  \/ /\ conv.threw
                    /\ Fatal("conversionError", conv.log)
                    /\ UNCHANGED <<postIdx, outDir, written>>
                 \/ /\ ~conv.threw
                    /\ HeadThrows(post)
                    /\ Fatal("metadataTypeError", conv.log)
                    /\ UNCHANGED <<postIdx, outDir, written>>
                 \/ /\ ~conv.threw
                    /\ ~HeadThrows(post)
                    /\ Fatal("writeFailed", conv.log)
                    /\ UNCHANGED <<postIdx, outDir, written>>
                 \/ /\ ~conv.threw
                    /\ ~HeadThrows(post)
                    /\ outDir' = WriteFile(outDir, post.slug, PageOf(post, conv.html))
                    /\ written' = Append(written, post.slug)
                    /\ postIdx' = postIdx + 1
                    /\ logged' = logged \cup conv.log
                    /\ UNCHANGED <<pc, escaped, exitCode>>
    /\ UNCHANGED <<token, registry, srcIdx, allPosts, scanVars, fetchStats, uniquePosts,
                   indexFile, slugVars>>

\* build: await generateBlogIndex(uniquePosts)
GenerateBlogIndex ==
    /\ pc = "index"
    /\ \/ /\ \E sorted \in SortOutcomes(IndexEntries(uniquePosts)) :
                indexFile' = <<[lastUpdated |-> LastUpdated, posts |-> sorted]>>
          /\ pc' = "report"
          /\ UNCHANGED <<logged, escaped, exitCode>>
       \/ /\ Fatal("writeFailed", {})
          /\ UNCHANGED indexFile
    /\ UNCHANGED <<token, registry, srcIdx, allPosts, scanVars, fetchStats, uniquePosts,
                   postIdx, outDir, written, slugVars>>

\* build: the closing log lines; the process then ends with status 0
Report ==
    /\ pc = "report"
    /\ pc' = "done"
    /\ exitCode' = <<0>>
    /\ logged' = IF fetchStats.failed > 0 THEN logged \cup {"failedCount"} ELSE logged
    /\ UNCHANGED <<token, registry, srcIdx, allPosts, scanVars, fetchStats, outVars,
                   escaped, slugVars>>

Next ==
    \/ BuildStart
    \/ LoadContentRegistry
    \/ ScanSource
    \/ ScanLocalFile
    \/ GitHubListReturn
    \/ GitHubNextFile
    \/ GitHubFetchReturn
    \/ Deduplicate
    \/ GeneratePostHTML
    \/ GenerateBlogIndex
    \/ Report

Spec == Init /\ [][Next]_vars

(***************************************************************************)
(* generateBlogIndex on its own: build() has reached it with some posts    *)
(***************************************************************************)
FileX == <<"x", ".", "m", "d">>
IndexFiles == <<FileA, FileB, FileC, FileE, FileX>>
IndexDates == {Date0101, Date0201, Date0301, DateSoon}

\* the i-th post of an input: scanned from a local file, every second one
\* from the remote repository
IndexPost(i, date) ==
    LET parsed == [data |-> [date |-> Str(date), author |-> Str(<<"n">>)],
                   content |-> BodyOk]
    IN  IF i % 2 = 0
        THEN RemotePost(OwnerO, RepoR, IndexFiles[i], parsed)
        ELSE LocalPost(IndexFiles[i], parsed)

IndexInputs ==
    {[i \in 1..Len(d) |-> IndexPost(i, d[i])] :
        d \in UNION {[1..k -> IndexDates] : k \in 0..MaxPosts}}

\* build() stands at position p with the posts ups, nothing written yet
BuildAt(p, ups) ==
    /\ pc = p
    /\ token = TRUE
    /\ registry = [file |-> "ok", sources |-> <<>>]
    /\ srcIdx = 1
    /\ allPosts = ups
    /\ posts = <<>>
    /\ files = <<>>
    /\ fileIdx = 1
    /\ inflight = "none"
    /\ fetchStats = NoStats
    /\ uniquePosts = ups
    /\ postIdx = 1
    /\ outDir = <<>>
    /\ written = <<>>
    /\ indexFile = <<>>
    /\ logged = {}
    /\ escaped = "none"
    /\ exitCode = <<>>

InitIndex ==
    /\ \E ups \in IndexInputs : BuildAt("index", ups)
    /\ IdleSlug

NextIndex == GenerateBlogIndex \/ Report

SpecIndex == InitIndex /\ [][NextIndex]_vars

(***************************************************************************)
(* generatePostHTML on its own: one post whose metadata holds a text       *)
(***************************************************************************)
HtmlAlphabet == {"a", "<", ">", "&", "\"", "'"}

Texts == UNION {[1..k -> HtmlAlphabet] : k \in 1..MaxText}

Benign == [title |-> Str(<<"T">>), description |-> Str(<<"d">>),
           date |-> Str(Date0101), author |-> Str(<<"n">>),
           tags |-> Arr(<< <<"t">> >>)]

\* metadata headers with the text in one of the fields
HeadData ==
    {[Benign EXCEPT ![f] = Str(text)] :
        f \in {"title", "description", "date", "author"}, text \in Texts}
    \cup {[Benign EXCEPT !.tags = Arr(<<text, <<"t">> >>)] : text \in Texts}
    \cup {[Benign EXCEPT !.tags = Arr(<<>>)]}

HeadInputs ==
    {<<LocalPost(FileA, [data |-> d, content |-> BodyOk])>> : d \in HeadData}

InitHead ==
    /\ \E ups \in HeadInputs : BuildAt("compose", ups)
    /\ IdleSlug

NextHead == GeneratePostHTML

SpecHead == InitHead /\ [][NextHead]_vars

(***************************************************************************)
(* Slug derivation on its own: one file name, scanned, and its slug        *)
(* scanned again as a file name                                            *)
(***************************************************************************)
Alphabet == {"a", "A", "m", "d", ".", "-", "/"}

Stems == UNION {[1..k -> Alphabet] : k \in 0..MaxLen}

Owners == {OwnerO, <<"N">>}

\* readdirSync names hold no '/', and only names ending in .md are scanned; a
\* remote listing holds whatever paths its pattern lets through
SlugInputs ==
    {[kind |-> "local", file |-> stem \o DotMd, owner |-> <<>>, prev |-> <<>>] :
        stem \in {q \in Stems : \A i \in 1..Len(q) : q[i] # "/"}}
    \cup
    {[kind |-> "github", file |-> f, owner |-> o, prev |-> <<>>] :
        f \in Stems \cup {stem \o DotMd : stem \in Stems}, o \in Owners}

BuildIdle == BuildAt("idle", <<>>)

InitSlug ==
    /\ BuildIdle
    /\ slugIn \in SlugInputs
    /\ slugOut = <<>>
    /\ linkIn = <<>>
    /\ linkOut = <<>>

\* the slug lines of scanLocalMarkdown / scanGitHubMarkdown for slugIn.file
DeriveSlug ==
    /\ pc = "idle"
    /\ slugOut = <<>>
    /\ slugOut' =
          IF slugIn.kind = "local"
          THEN <<[derived |-> LocalSlug(slugIn.file), slug |-> LocalSlug(slugIn.file)]>>
          ELSE <<[derived |-> RemoteSlug(slugIn.file),
                  slug |-> RemotePostSlug(slugIn.owner, slugIn.file)]>>
    /\ UNCHANGED <<slugIn, linkIn, linkOut, buildVars>>

\* the derived slug is handed back as the name of a file
DeriveAgain ==
    /\ pc = "idle"
    /\ slugOut # <<>>
    /\ slugIn.prev = <<>>
    /\ slugIn' = [slugIn EXCEPT !.file = slugOut[1].derived,
                                !.prev = <<[file |-> slugIn.file,
                                            derived |-> slugOut[1].derived]>>]
    /\ slugOut' = <<>>
    /\ UNCHANGED <<linkIn, linkOut, buildVars>>

NextSlug == DeriveSlug \/ DeriveAgain

SpecSlug == InitSlug /\ [][NextSlug]_vars

(***************************************************************************)
(* Properties                                                              *)
(***************************************************************************)
Range(q) == {q[i] : i \in 1..Len(q)}

AfterDeduplicate == pc \in {"compose", "index", "report", "done", "fatal"}

ComposeOver == pc \in {"index", "report", "done"}

Published == Str(<<"p", "u", "b", "l", "i", "s", "h", "e", "d">>)

\* C1: after aggregation and de-duplication no two posts of the final set
\* share a slug, every scanned slug is kept, and the post kept for a slug is
\* the one that comes last in scan order.
C1_UniqueSlugLastWins ==
    AfterDeduplicate =>
        /\ \A i, j \in 1..Len(uniquePosts) :
              i # j => uniquePosts[i].slug # uniquePosts[j].slug
        /\ \A k \in 1..Len(allPosts) :
              \E i \in 1..Len(uniquePosts) : uniquePosts[i].slug = allPosts[k].slug
        /\ \A i \in 1..Len(uniquePosts) :
              \E k \in 1..Len(allPosts) :
                 /\ allPosts[k] = uniquePosts[i]
                 /\ \A m \in (k + 1)..Len(allPosts) :
                       allPosts[m].slug # uniquePosts[i].slug

\* C1 witness: two different posts of two sources were scanned with one slug
\* and the build has de-duplicated them.
C1_Witness ==
    /\ pc = "done"
    /\ \E i, j \in 1..Len(allPosts) :
          /\ i < j
          /\ allPosts[i].slug = allPosts[j].slug
          /\ allPosts[i].source # allPosts[j].source
          /\ allPosts[i].title # allPosts[j].title

\* C2: a page file and an index entry are produced only for posts whose
\* status is "published"; draft and archived posts produce neither.
C2_OnlyPublishedOutput ==
    /\ \A k \in 1..Len(uniquePosts) :
          uniquePosts[k].slug \in Range(written)
              => Get(uniquePosts[k].metadata, "status") = Published
    /\ indexFile # <<>> =>
          \A i \in 1..Len(indexFile[1].posts) :
             Get(indexFile[1].posts[i].metadata, "status") = Published

\* C3: when the conversion of a post's body raises an error no page file is
\* written for that post and it is absent from the index, while every other
\* post of the final set has its page written.
C3_ConversionFailureSkipsPost ==
    ComposeOver =>
        \A k \in 1..Len(uniquePosts) :
           IF MarkedThrows(uniquePosts[k].content)
           THEN /\ uniquePosts[k].slug \notin Range(written)
                /\ indexFile # <<>> =>
                      \A i \in 1..Len(indexFile[1].posts) :
                         indexFile[1].posts[i].slug # uniquePosts[k].slug
           ELSE uniquePosts[k].slug \in Range(written)

PerItemFailures ==
    {"fetchFailed", "listError", "localMissing", "registryMissing", "conversionError"}

\* C4: per-item failures (a fetch, a listing, a missing directory or registry,
\* a conversion) never end the build: it goes on to completion with exit
\* status 0, and the status is non-zero exactly when an exception reached the
\* catch of build().
C4_ExitStatus ==
    /\ pc = "done" => (exitCode = <<0>> /\ escaped = "none")
    /\ pc = "fatal" => (exitCode = <<1>> /\ escaped # "none")
    /\ exitCode = <<1>> <=> escaped # "none"
    /\ exitCode # <<>> => pc \in {"done", "fatal"}
    /\ escaped \notin PerItemFailures
    /\ (pc \notin {"done", "fatal"} /\ logged # {}) => ENABLED Next

\* C4 witness: a build in which a fetch and a conversion failed has completed
\* with exit status 0.
C4_Witness ==
    /\ pc = "done"
    /\ exitCode = <<0>>
    /\ {"fetchFailed", "conversionError"} \subseteq logged

\* C5: the fatal report is reached only from a failure of the output write
\* stage, never from reading the registry or composing one post's page.
C5_FatalOnlyFromWrite == pc = "fatal" => escaped = "writeFailed"

\* a's date is before b's
DateBefore(a, b) ==
    /\ TimeOf(a.date) # <<>>
    /\ TimeOf(b.date) # <<>>
    /\ TimeOf(a.date)[1] < TimeOf(b.date)[1]

PositionIn(q, slug) == CHOOSE i \in 1..Len(q) : q[i].slug = slug

C7_IndexEntriesAreSummaries ==
    indexFile # <<>> =>
        \A i \in 1..Len(indexFile[1].posts) :
           /\ indexFile[1].posts[i].content = <<>>
           /\ DOMAIN indexFile[1].posts[i]
                 = {"content", "id", "slug", "title", "description", "date"}

\* the text holds none of < > " ' and every & of it begins an entity
IsEscaped(text) ==
    \A i \in 1..Len(text) :
       /\ text[i] \notin {"<", ">", "\"", "'"}
       /\ text[i] = "&" =>
             \E e \in {<<"a", "m", "p", ";">>, <<"l", "t", ";">>, <<"g", "t", ";">>,
                       <<"q", "u", "o", "t", ";">>, <<"#", "0", "3", "9", ";">>} :
                StartsWithAt(text, i + 1, e)

\* C8: every metadata text interpolated into the head of a written page
\* (title, description, published time, author, keywords) is HTML-escaped.
C8_HeadValuesEscaped ==
    \A name \in DOMAIN outDir :
       \A i \in 1..Len(outDir[name].head) : IsEscaped(outDir[name].head[i].content)

\* C9: deriving a slug from the slug of a file name gives that slug again.
C9_SlugIdempotent ==
    (slugOut # <<>> /\ slugIn.prev # <<>>)
        => slugOut[1].derived = slugIn.prev[1].derived

\* C9 witness: the local name "A..md", which the derivation changes to "a-",
\* has been derived and its slug has been derived again.
C9_Witness ==
    /\ slugOut # <<>>
    /\ slugIn.prev # <<>>
    /\ slugIn.kind = "local"
    /\ slugIn.prev[1].file = <<"A", ".", ".", "m", "d">>
    /\ slugIn.prev[1].derived = <<"a", "-">>

\* the slug is lowercase, of word characters and hyphens, with no run of hyphens
WellFormedSlug(slug) ==
    /\ \A i \in 1..Len(slug) : slug[i] \in Lowers \cup Digits \cup {"_", "-"}
    /\ \A i \in 1..(Len(slug) - 1) : ~(slug[i] = "-" /\ slug[i + 1] = "-")

\* C10: the slug of every post record the scanner produces, local or remote,
\* is lowercase and made of word characters and single hyphens.
C10_PostSlugWellFormed ==
    (slugOut # <<>> /\ slugIn.prev = <<>>) => WellFormedSlug(slugOut[1].slug)

Draft == Str(<<"d", "r", "a", "f", "t">>)

\* the post has no page and no entry in the index
NoOutputFor(post) ==
    /\ post.slug \notin Range(written)
    /\ indexFile # <<>> =>
          \A i \in 1..Len(indexFile[1].posts) : indexFile[1].posts[i].slug # post.slug

\* C11: a post whose metadata header declares no status has status draft, and
\* no page and no index entry is produced for it.
C11_AbsentStatusIsDraft ==
    /\ \A k \in 1..Len(allPosts) :
          "status" \notin DOMAIN allPosts[k].metadata
              => ("status" \in DOMAIN allPosts[k] /\ allPosts[k].status = Draft)
    /\ \A k \in 1..Len(uniquePosts) :
          "status" \notin DOMAIN uniquePosts[k].metadata => NoOutputFor(uniquePosts[k])

\* the scanner has pushed a post for the file its loop is at
PushedPost == Len(posts') = Len(posts) + 1

\* C12: a post pushed for a file whose header declares no title has the name
\* of the file as its title: for a remote path, its last segment.
C12_AbsentTitleIsFileName ==
    [][(pc \in {"localFile", "ghFetch"} /\ PushedPost)
          => LET post == posts'[Len(posts')]
             IN  "title" \notin DOMAIN post.metadata
                    => post.title = Str(LastSegment(files[fileIdx]))]_vars

\* C13: the date of every scanned post is one string, and for a header that
\* declares no date it is the timestamp of the build.
C13_AbsentDateIsTimestampString ==
    \A k \in 1..Len(allPosts) :
       /\ allPosts[k].date.t = "str"
       /\ "date" \notin DOMAIN allPosts[k].metadata => allPosts[k].date.v = LastUpdated

\* C14: when the fetch of a listed file fails, the failure counter goes up by
\* one, no post is pushed for the file, and the loop goes on with the next
\* listed file; the scan returns only when every listed file was fetched.
C14_FetchFailureContinues ==
    [][/\ (pc = "ghFetch" /\ fetchStats'.failed # fetchStats.failed)
            => /\ fetchStats'.failed = fetchStats.failed + 1
               /\ posts' = posts
               /\ files' = files
               /\ fileIdx' = fileIdx + 1
               /\ pc' = "ghFile"
               /\ allPosts' = allPosts
               /\ srcIdx' = srcIdx
       /\ (pc = "ghFile" /\ pc' # "ghFile")
            => IF fileIdx <= Len(files) THEN pc' = "ghFetch"
               ELSE pc' = "nextSource" /\ allPosts' = allPosts \o posts]_vars

\* C14 witness: of two listed files the fetch of the first has failed and the
\* second, b.md, was fetched after it and gave a post.
C14_Witness ==
    /\ pc = "ghFile"
    /\ fetchStats = [failed |-> 1, success |-> 1, total |-> 2]
    /\ fileIdx = 3
    /\ files[2] = FileB
    /\ Len(posts) = 1
    /\ posts[1].title = Str(<<"B">>)

AfterAggregate == pc \in {"dedupe", "compose", "index", "report", "done", "fatal"}

GitHubSources == {i \in 1..Len(registry.sources) : registry.sources[i].type = "github"}

\* C15: when the listing of the one remote source of the registry has failed,
\* the aggregate holds no post of that source and holds every post the local
\* sources before and after it have pushed.
C15_ListingFailureIsolated ==
    /\ (AfterAggregate /\ "listError" \in logged /\ Cardinality(GitHubSources) = 1)
          => /\ \A k \in 1..Len(allPosts) : allPosts[k].source = "local"
             /\ Len(allPosts) = fetchStats.success
             /\ fetchStats.total = fetchStats.success
    /\ (pc = "ghFile" /\ "listError" \in logged /\ Cardinality(GitHubSources) = 1)
          => (files = <<>> /\ posts = <<>>)

\* C15 witness: the listing of the remote source, scanned after the local
\* one, has failed and the build has completed with the local posts.
C15_Witness ==
    /\ pc = "done"
    /\ "listError" \in logged
    /\ registry.sources = <<SrcLocal, SrcGitHub>>
    /\ Len(allPosts) = 2

AfterLoadRegistry == pc \notin {"start", "loadRegistry"}

\* the only exception of the later stages that the absence leaves possible
NotFatalFromAbsence == escaped \in {"none", "writeFailed"}

\* C16: with the registry file missing the aggregate is empty, with a local
\* directory missing that source gives no post; in both cases a warning is
\* logged, the build goes on with its next stage and is not ended by it.
C16_AbsenceIsNotFatal ==
    /\ (registry.file = "missing" /\ AfterLoadRegistry)
          => /\ "registryMissing" \in logged
             /\ allPosts = <<>>
             /\ uniquePosts = <<>>
             /\ NotFatalFromAbsence
             /\ pc \notin {"done", "fatal"} => ENABLED Next
    /\ (registry.file = "ok" /\ SrcLocalMissing \in Range(registry.sources)
            /\ AfterAggregate)
          => /\ "localMissing" \in logged
             /\ \A k \in 1..Len(allPosts) : allPosts[k].source = "github"
             /\ NotFatalFromAbsence
             /\ pc \notin {"done", "fatal"} => ENABLED Next

\* C16 witness: a build without registry file has written an index of no
\* posts and has completed.
C16_Witness ==
    /\ pc = "done"
    /\ registry.file = "missing"
    /\ indexFile # <<>>
    /\ indexFile[1].posts = <<>>
    /\ exitCode = <<0>>

\* C17: a remote request is in flight exactly while the scanner awaits it, a
\* request is issued only when none is in flight, and the sources are scanned
\* one after the other in registry order, none begun while a request of the
\* one before is in flight.
C17_OneRequestAtATime ==
    /\ [](inflight # "none" <=> pc \in {"ghList", "ghFetch"})
    /\ [](inflight = "list" => pc = "ghList")
    /\ [][/\ (pc \in {"nextSource", "ghFile"} /\ inflight' # "none")
               => inflight = "none"
          /\ srcIdx' \in {srcIdx, srcIdx + 1}
          /\ srcIdx' # srcIdx => (inflight = "none" /\ inflight' = "none")]_vars

\* C17 witness: the fetch of the second listed file of the second source is
\* in flight.
C17_Witness ==
    /\ pc = "ghFetch"
    /\ inflight = "fetch"
    /\ srcIdx = 2
    /\ fileIdx = 2

\* the name of the homepage document in OUTPUT_DIR, index.html
Homepage == <<"i", "n", "d", "e", "x">>

\* OUTPUT_DIR holds a homepage document, a listing of posts
HomepageWritten ==
    /\ Homepage \in DOMAIN outDir
    /\ "listing" \in DOMAIN outDir[Homepage]

AllPagesWritten == \A k \in 1..Len(uniquePosts) : uniquePosts[k].slug \in DOMAIN outDir

\* C18: the stages follow in the order compose pages, write index, write
\* homepage, report: the index is there only when every page is, the homepage
\* only when the index is, and the report only when index and homepage are.
C18_StageOrder ==
    /\ indexFile # <<>> => AllPagesWritten
    /\ HomepageWritten => indexFile # <<>>
    /\ pc \in {"report", "done"} => (indexFile # <<>> /\ HomepageWritten)
    /\ "failedCount" \in logged => indexFile # <<>>

\* C19: a build that has ended with the success report has written one page
\* per post of the final set and a homepage document index.html listing all
\* of these posts.
C19_HomepageListsAllPosts ==
    pc = "done" =>
        /\ AllPagesWritten
        /\ HomepageWritten
        /\ \A k \in 1..Len(uniquePosts) :
              \E i \in 1..Len(outDir[Homepage].listing) :
                 outDir[Homepage].listing[i].slug = uniquePosts[k].slug

(***************************************************************************)
(* generatePostHTML on its own: one post whose title and body hold the     *)
(* placeholder text or the characters of a replacement pattern             *)
(***************************************************************************)
TitleAlphabet == {"T", Placeholder}

BodyAlphabet == {"x", "$", "&"}

ComposeInputs ==
    {<<LocalPost(FileA, [data |-> [Benign EXCEPT !.title = Str(title)],
                         content |-> body])>> :
        title \in UNION {[1..k -> TitleAlphabet] : k \in 1..MaxText},
        body \in UNION {[1..k -> BodyAlphabet] : k \in 1..MaxText}}

InitCompose ==
    /\ \E ups \in ComposeInputs : BuildAt("compose", ups)
    /\ IdleSlug

NextCompose == GeneratePostHTML

SpecCompose == InitCompose /\ [][NextCompose]_vars

\* C20: the body of every written page is the shell of its post with the
\* converted fragment, verbatim, in the place of the slot's placeholder and
\* nothing else changed.
C20_FragmentVerbatimInSlot ==
    \A k \in 1..Len(uniquePosts) :
       uniquePosts[k].slug \in DOMAIN outDir
          => outDir[uniquePosts[k].slug].body
                = ShellBefore(uniquePosts[k])
                    \o RenderMarkdownToHtml(uniquePosts[k].content).html
                    \o ShellAfter(uniquePosts[k])

\* the keywords entries of a document head
KeywordsOf(head) == SelectSeq(head, LAMBDA entry : entry.name = "keywords")

\* C21: the head of a written page has one keywords entry, the post's tags
\* joined by single spaces, and has none when the post has no tags field or
\* an empty tag list.
C21_KeywordsSpaceJoined ==
    \A k \in 1..Len(uniquePosts) :
       uniquePosts[k].slug \in DOMAIN outDir =>
          LET tags == Get(uniquePosts[k].metadata, "tags")
              keywords == KeywordsOf(outDir[uniquePosts[k].slug].head)
          IN  IF tags.t = "arr" /\ tags.items # <<>>
              THEN /\ Len(keywords) = 1
                   /\ keywords[1].content = EscapeHtml(Join(tags.items, <<" ">>))
              ELSE keywords = <<>>

(***************************************************************************)
(* Link rendering on its own: one link token, rendered by the renderer of  *)
(* the build (customRenderer.link) and by the component of the listing UI  *)
(***************************************************************************)
Chars(str) ==
    CASE str = "" -> <<>>
      [] str = "http:" -> <<"h", "t", "t", "p", ":">>
      [] str = "https:" -> <<"h", "t", "t", "p", "s", ":">>
      [] str = "HTTPS:" -> <<"H", "T", "T", "P", "S", ":">>
      [] str = "mailto:" -> <<"m", "a", "i", "l", "t", "o", ":">>
      [] str = "ftp:" -> <<"f", "t", "p", ":">>
      [] str = "tel:" -> <<"t", "e", "l", ":">>
      [] str = "//x" -> <<"/", "/", "x">>
      [] str = "/x" -> <<"/", "x">>
      [] str = "x" -> <<"x">>
      [] str = "#x" -> <<"#", "x">>
      [] str = "./x" -> <<".", "/", "x">>
      [] str = "../x" -> <<".", ".", "/", "x">>
      [] str = "http" -> <<"h", "t", "t", "p">>
      [] str = "https.md" -> <<"h", "t", "t", "p", "s", ".", "m", "d">>

HrefPrefixes == {"", "http:", "https:", "HTTPS:", "mailto:", "ftp:", "tel:"}

HrefRests == {"//x", "/x", "x", "#x", "./x", "../x", "http", "https.md"}

Hrefs == {Chars(a) \o Chars(b) : a \in HrefPrefixes, b \in HrefRests}

\* href.startsWith('http')
IsExternal(href) == StartsWithAt(href, 1, <<"h", "t", "t", "p">>)

\* the anchor element both link rules return: its href, target and rel
AnchorOf(href) ==
    [href |-> href,
     target |-> IF IsExternal(href) THEN "_blank" ELSE "",
     rel |-> IF IsExternal(href) THEN "noopener noreferrer" ELSE ""]

BuildIdleLink ==
    /\ BuildAt("idle", <<>>)
    /\ slugIn = [kind |-> "none", file |-> <<>>, owner |-> <<>>, prev |-> <<>>]
    /\ slugOut = <<>>

InitLink ==
    /\ BuildIdleLink
    /\ linkIn \in {<<[href |-> h]>> : h \in Hrefs}
    /\ linkOut = <<>>

\* customRenderer.link(token)
RenderLink ==
    /\ pc = "idle"
    /\ linkIn # <<>>
    /\ linkOut = <<>>
    /\ linkOut' = <<[by |-> "customRenderer"] @@ AnchorOf(linkIn[1].href)>>
    /\ UNCHANGED <<linkIn, slugIn, slugOut, buildVars>>

\* MarkdownRenderer: components.a({ href, children })
RenderAnchor ==
    /\ pc = "idle"
    /\ linkIn # <<>>
    /\ linkOut = <<>>
    /\ linkOut' = <<[by |-> "MarkdownRenderer"] @@ AnchorOf(linkIn[1].href)>>
    /\ UNCHANGED <<linkIn, slugIn, slugOut, buildVars>>

NextLink == RenderLink \/ RenderAnchor

SpecLink == InitLink /\ [][NextLink]_vars

SchemeLetters == Lowers \cup Uppers \cup {"h", "i", "f", "e", "H", "P", "S"}

\* the href begins with a URL scheme: a letter, then letters, digits, + - .
\* up to a colon
HasScheme(href) ==
    \E i \in 2..Len(href) :
       /\ href[i] = ":"
       /\ href[1] \in SchemeLetters
       /\ \A k \in 2..(i - 1) : href[k] \in SchemeLetters \cup Digits \cup {"+", "-", "."}

\* C22: a rendered link has target _blank and rel noopener noreferrer exactly
\* when its href begins with an absolute URL scheme.
C22_ExternalLinksExactly ==
    linkOut # <<>> =>
        IF HasScheme(linkOut[1].href)
        THEN linkOut[1].target = "_blank" /\ linkOut[1].rel = "noopener noreferrer"
        ELSE linkOut[1].target = "" /\ linkOut[1].rel = ""

\* C23: in a build without GITHUB_TOKEN no remote request, listing or fetch,
\* is ever in flight, and no post of a github source is aggregated.
C23_NoTokenNoRemoteRequest ==
    ~token =>
        /\ inflight = "none"
        /\ pc \notin {"ghList", "ghFile", "ghFetch"}
        /\ \A k \in 1..Len(allPosts) : allPosts[k].source = "local"

\* C24: a file whose metadata header cannot be parsed gives no post and the
\* scanner's loop goes on with the next file of the source, keeping the posts
\* it has, in the local scanner and in the remote one.
C24_ParseFailureExcludesOneFile ==
    [][/\ (pc = "localFile" /\ fileIdx <= Len(files)
              /\ MatterThrows(LocalFile(files[fileIdx])))
            => /\ pc' = "localFile"
               /\ fileIdx' = fileIdx + 1
               /\ files' = files
               /\ posts' = posts
       /\ (pc = "ghFetch" /\ posts' = posts)
            => /\ pc' = "ghFile"
               /\ fileIdx' = fileIdx + 1
               /\ files' = files]_vars

\* C25: within one build no page file is written twice, the files of
\* OUTPUT_DIR are the pages written, and the file <slug>.html holds the page
\* of the post of the final set that has this slug.
C25_OnePagePerPost ==
    /\ \A i, j \in 1..Len(written) : i # j => written[i] # written[j]
    /\ DOMAIN outDir = Range(written)
    /\ \A i \in 1..Len(written) :
          /\ i <= Len(uniquePosts)
          /\ uniquePosts[i].slug = written[i]
          /\ outDir[written[i]]
                = PageOf(uniquePosts[i], RenderMarkdownToHtml(uniquePosts[i].content).html)

\* C25 witness: a build in which two scanned posts shared a slug has written
\* the pages of two posts and has completed.
C25_Witness ==
    /\ pc = "done"
    /\ Len(written) = 2
    /\ Len(allPosts) = 3

\* the paths of the listed files that are directly inside the directory and
\* whose name ends in .md
MarkdownFilesOf(items, dir) ==
    LET fileItems == SelectSeq(items, LAMBDA item : item.type = "file")
        paths == [i \in 1..Len(fileItems) |-> fileItems[i].path]
        prefix == IF dir = <<>> THEN <<>> ELSE dir \o <<"/">>
    IN  SelectSeq(paths, LAMBDA path :
            /\ StartsWithAt(path, 1, prefix)
            /\ EndsWith(path, DotMd)
            /\ \A i \in (Len(prefix) + 1)..Len(path) : path[i] # "/")

\* C26: for a remote source with a directory path and the default pattern,
\* the files the scan goes on to fetch are the files directly inside the
\* directory whose name ends in .md, and no other.
C26_DefaultPatternSelectsMarkdown ==
    (pc = "ghFile" /\ "listError" \notin logged
        /\ IsRemoteDir(registry.sources[srcIdx].path)
        /\ "pattern" \notin DOMAIN registry.sources[srcIdx])
      => \E items \in ListingsOf(registry.sources[srcIdx].path) :
            files = MarkdownFilesOf(items, registry.sources[srcIdx].path)

\* C27: whenever no file is being processed, and in the final report, every
\* attempted file is counted as succeeded or as failed:
\* total = success + failed.
C27_CountersConsistent ==
    pc # "ghFetch" => fetchStats.total = fetchStats.success + fetchStats.failed

(***************************************************************************)
(* The de-duplication on its own: build() has aggregated two posts of      *)
(* local and remote sources                                                *)
(***************************************************************************)
OwnerLocal == <<"l", "o", "c", "a", "l">>

IdOwners == {OwnerO, OwnerLocal}

IdFiles == {FileA, FileB, FileOB, <<"o", "-", "a", ".", "m", "d">>}

\* the posts the scanners push for these files, scanned locally or remotely
IdPosts ==
    LET parsed == [data |-> [date |-> Str(Date0101)], content |-> BodyOk]
    IN  {LocalPost(f, parsed) : f \in IdFiles}
        \cup {RemotePost(o, RepoR, f, parsed) : o \in IdOwners, f \in IdFiles}

InitIds ==
    /\ \E p \in IdPosts, q \in IdPosts : BuildAt("dedupe", <<p, q>>)
    /\ IdleSlug

NextIds == Deduplicate

SpecIds == InitIds /\ [][NextIds]_vars

\* C28: no two posts of the final de-duplicated set have the same id.
C28_UniqueIds ==
    AfterDeduplicate =>
        \A i, j \in 1..Len(uniquePosts) :
           i # j => uniquePosts[i].id # uniquePosts[j].id

\* the slugs the written index lists
ListedSlugs ==
    IF indexFile = <<>> THEN {}
    ELSE {indexFile[1].posts[i].slug : i \in 1..Len(indexFile[1].posts)}

\* C29: when a build ends with the success report, the slugs listed in the
\* written index are exactly the slugs whose page file was written during
\* that build, and each of these files is in the output directory.
C29_IndexMatchesPages ==
    (pc = "done" /\ exitCode = <<0>>) =>
        /\ indexFile # <<>>
        /\ ListedSlugs = Range(written)
        /\ ListedSlugs \subseteq DOMAIN outDir

C29_Witness ==
    /\ pc = "done"
    /\ exitCode = <<0>>
    /\ Len(written) >= 2
    /\ Cardinality(ListedSlugs) >= 2

(***************************************************************************)
(* Several builds on the same working tree: the script is run again after  *)
(* the registry was edited.  The module state is fresh in each run; the    *)
(* files of public/pages and the index file stay on disk, since the script *)
(* only calls ensureDirSync and writeFileSync on them.                     *)
(***************************************************************************)

\* the next run of the script; further runs are followed as long as the
\* directory holds only pages of the run just ended, which keeps the
\* exploration finite
Rebuild ==
    /\ pc \in {"done", "fatal"}
    /\ DOMAIN outDir = Range(written)
    /\ pc' = "start"
    /\ token' \in BOOLEAN
    /\ registry' \in Registries
    /\ srcIdx' = 1
    /\ allPosts' = <<>>
    /\ posts' = <<>>
    /\ files' = <<>>
    /\ fileIdx' = 1
    /\ inflight' = "none"
    /\ fetchStats' = NoStats
    /\ uniquePosts' = <<>>
    /\ postIdx' = 1
    /\ written' = <<>>
    /\ logged' = {}
    /\ escaped' = "none"
    /\ exitCode' = <<>>
    /\ UNCHANGED <<outDir, indexFile, slugVars>>

NextRebuild == Next \/ Rebuild

SpecRebuild == Init /\ [][NextRebuild]_vars

\* C30: after a build that ends with the success report, every page file of
\* the output directory belongs to a post of that build's final set.
C30_NoStalePages ==
    (pc = "done" /\ exitCode = <<0>>) =>
        DOMAIN outDir \subseteq {uniquePosts[k].slug : k \in 1..Len(uniquePosts)}

====
